---- MODULE Spec2Model ----
(***************************************************************************)
(* fetch-fun: the middleware chain and the retry engine.                   *)
(*                                                                         *)
(* Modelled from src/src/util.ts (sleep, retry, retryBase, backoffDelay,   *)
(* asNotRetryError, isNotRetryError), src/src/middleware.ts                *)
(* (createRetryBase, createRetry) and the fetch module                     *)
(* (applyMiddlewares, fetch).                                              *)
(*                                                                         *)
(* JavaScript is single threaded: every action below is one run-to-        *)
(* completion step (a synchronous call, a promise reaction, a timer        *)
(* callback, an abort dispatch).  The transport, a caller-supplied         *)
(* beforeRetry callback, the clock and the AbortController are the         *)
(* environment: their outcomes are nondeterministic inputs.                *)
(***************************************************************************)
EXTENDS Integers, Sequences, FiniteSets, TLC

\* ------------------------------------------------------------------ bounds

\* createRetry(maxRetries): maxRetries is drawn from 0..MaxRetriesBound
MaxRetriesBound == 2
\* Math.random() is drawn from {k / RandSteps : k \in 0..RandSteps-1}
RandSteps == 2
\* a caller-supplied beforeRetry resolves only while attempt < MaxAttempts
MaxAttempts == 3
\* compose is given up to MaxCompose middlewares
MaxCompose == 3
\* number of direct use / retry calls on configurations
MaxUses == 3
\* number of direct asNotRetryError calls
MaxWraps == 2
\* backoffDelay is called directly with attempt in 0..MaxAttemptArg
MaxAttemptArg == 3
\* number of direct sleep(ms, signal) calls
MaxSleeps == 2
\* sleep durations of direct calls are drawn from 0..MaxMs
MaxMs == 2
\* the clock of the direct-sleep specification runs over 0..MaxTime
MaxTime == 3
\* length of the symbolic middleware lists handed to applyMiddlewares
MaxMw == 3

\* ------------------------------------------------------- program constants

\* sleep(backoffDelay(attempt, 1000, 10000, 2), o.signal)
InitialDelay == 1000
MaxDelay == 10000
Multiplier == 2

\* ------------------------------------------------------------------ values

Undefined == [type |-> "undefined"]
Null == [type |-> "null"]

Err(m) == [type |-> "Error", message |-> m]

\* the errors and responses a transport or a callback may produce
PlainErrors == {Err("Test Error"), Err("fail 1")}
Responses == {[type |-> "Response", id |-> "Success"]}

\* primitive values, and a reference to the object at an address of the heap
Number(n) == [type |-> "number", value |-> n]
Bool(b) == [type |-> "boolean", value |-> b]
\* a string is the sequence of its pieces, so that it can be concatenated and
\* searched: Str(<<"/test", "?", "a=1">>) is '/test?a=1'
Str(t) == [type |-> "string", value |-> t]
Ref(a) == [type |-> "ref", addr |-> a]

\* {}
EmptyObject == [type |-> "object"]

\* the falsy values of JavaScript
Falsy(v) == v \in {Undefined, Null, Bool(FALSE), Number(0), Str(<<>>)}

\* (e || {}) without the default
OrEmptyDropped(e) == e

\* ((e as any) || {})
OrEmpty(e) == IF Falsy(e) THEN EmptyObject ELSE e

\* x[key] throws a TypeError when x is null or undefined
PropertyAccessThrows(x) == x \in {Undefined, Null}

\* asNotRetryError without err.cause = e
asNotRetryErrorNoCause(e) ==
  [type |-> "Error", message |-> "Not retryable error",
   notRetryErrorSymbol |-> Bool(TRUE)]

\* util.ts asNotRetryError: the fields of the new Error, with cause e and the
\* symbol tag true
asNotRetryError(e) ==
  [type |-> "Error", message |-> "Not retryable error",
   cause |-> e, notRetryErrorSymbol |-> Bool(TRUE)]

\* util.ts isNotRetryError: ((e as any) || {})[notRetryErrorSymbol] === true
\* (a property a value does not have reads as undefined)
isNotRetryError(e) ==
  LET x == OrEmpty(e)
  IN /\ "notRetryErrorSymbol" \in DOMAIN x
     /\ x.notRetryErrorSymbol = Bool(TRUE)

TaggedErrors == {asNotRetryError(e) : e \in PlainErrors}
TransportErrors == PlainErrors \cup TaggedErrors

\* ------------------------------------------------------------ backoffDelay

RECURSIVE Pow(_, _)
\* Math.pow(b, e) for a natural exponent
Pow(b, e) == IF e = 0 THEN 1 ELSE b * Pow(b, e - 1)

Min(a, b) == IF a <= b THEN a ELSE b

\* initialDelay * Math.pow(multiplier, attempt)
ExponentialDelay(attempt, initialDelay, multiplier) ==
  initialDelay * Pow(multiplier, attempt)

\* Math.min(exponentialDelay, maxDelay)
CappedDelay(attempt, initialDelay, maxDelay, multiplier) ==
  Min(ExponentialDelay(attempt, initialDelay, multiplier), maxDelay)

\* backoffDelay without Math.min(exponentialDelay, maxDelay)
backoffDelayNoCap(attempt, initialDelay, maxDelay, multiplier, u) ==
  (ExponentialDelay(attempt, initialDelay, multiplier) * (3 * RandSteps + 2 * u))
    \div (4 * RandSteps)

\* util.ts backoffDelay, with Math.random() = u / RandSteps:
\*   floor(capped + capped * 0.25 * (random * 2 - 1))
\*   = floor(capped * (3 * RandSteps + 2 * u) / (4 * RandSteps))
backoffDelay(attempt, initialDelay, maxDelay, multiplier, u) ==
  LET cappedDelay == CappedDelay(attempt, initialDelay, maxDelay, multiplier)
  IN (cappedDelay * (3 * RandSteps + 2 * u)) \div (4 * RandSteps)

\* ------------------------------------------------------------------- state

Reqs == {"r1", "r2"}

VARIABLES
  cfg,        \* cfg[r]: the configuration o of request r (fields may be absent)
  call,       \* call[r]: the wrapped call built by applyMiddlewares
  req,        \* req[r]: what the caller of fetch(o) holds
  fr,         \* fr[r][i]: the retry invocation of the i-th middleware (1 = innermost)
  tr,         \* tr[r]: the transport call of request r
  sleeps,     \* every sleep() promise created so far, in creation order
  listeners,  \* the 'abort' listeners registered on the AbortSignal
  aborted,    \* signal.aborted
  now,        \* the clock, in milliseconds
  args,       \* the arguments of a direct call of a pure function
  result,     \* what that call returned
  heap,       \* the objects direct calls of the error markers work on
  comp        \* the invocation of a function returned by compose(middleware)

reqVars == <<cfg, call, req, fr, tr>>
sleepVars == <<sleeps, listeners, aborted>>
pureVars == <<args, result, heap, comp>>
vars == <<cfg, call, req, fr, tr, sleeps, listeners, aborted, now, args, result,
          heap, comp>>

\* the one AbortSignal of the model
TheSignal == [type |-> "AbortSignal"]
HasSignal(signal) == signal.type = "AbortSignal"

\* ------------------------------------------------------------------- sleep

\* resolve(): settles the promise once; later calls are no-ops
Resolve(s, by) ==
  IF s.state = "pending"
  THEN [s EXCEPT !.state = "resolved", !.at = now, !.by = by]
  ELSE s

\* a sleep as its executor starts; calledAborted notes whether an abort had
\* been dispatched before the call (it is not read by the code)
PendingSleep(ms, signal) ==
  [ms |-> ms, signal |-> signal, state |-> "pending", timer |-> "pending",
   start |-> now, due |-> now + ms, at |-> -1, by |-> "none",
   calledAborted |-> aborted]

\* sleep without the test of signal.aborted
sleepNoAbortedTest(ms, signal) ==
  /\ sleeps' = Append(sleeps, PendingSleep(ms, signal))
  /\ listeners' =
       IF HasSignal(signal)
       THEN listeners \cup {[id |-> Len(sleeps) + 1, once |-> TRUE]}
       ELSE listeners

\* util.ts sleep: the promise executor, run synchronously by the call
sleep(ms, signal) ==
  LET id == Len(sleeps) + 1
  IN IF HasSignal(signal) /\ aborted
     THEN \* if (signal?.aborted) return resolve();
          /\ sleeps' = Append(sleeps,
               [PendingSleep(ms, signal) EXCEPT
                  !.state = "resolved", !.timer = "none", !.at = now,
                  !.by = "already aborted"])
          /\ listeners' = listeners
     ELSE \* setTimeout(..., ms); signal.addEventListener('abort', h, {once})
          /\ sleeps' = Append(sleeps, PendingSleep(ms, signal))
          /\ listeners' =
               IF HasSignal(signal)
               THEN listeners \cup {[id |-> id, once |-> TRUE]}
               ELSE listeners

\* timeoutCallback without resolve()
timeoutCallbackNoResolve(id) ==
  /\ listeners' =
       IF HasSignal(sleeps[id].signal)
       THEN {l \in listeners : l.id # id}
       ELSE listeners
  /\ sleeps' = [sleeps EXCEPT ![id] = [@ EXCEPT !.timer = "fired"]]

\* timeoutCallback without removeEventListener
timeoutCallbackKeepsListener(id) ==
  /\ listeners' = listeners
  /\ sleeps' = [sleeps EXCEPT ![id] = Resolve([@ EXCEPT !.timer = "fired"], "timer")]

\* util.ts sleep: the setTimeout callback of sleep number id
timeoutCallback(id) ==
  /\ listeners' =
       IF HasSignal(sleeps[id].signal)
       THEN {l \in listeners : l.id # id}
       ELSE listeners
  /\ sleeps' = [sleeps EXCEPT ![id] = Resolve([@ EXCEPT !.timer = "fired"], "timer")]

\* abortHandler without clearTimeout
abortHandlerKeepsTimer(s) == Resolve(s, "abort")

\* util.ts sleep: abortHandler = () => { clearTimeout(timeout); resolve(); }
abortHandler(s) ==
  Resolve([s EXCEPT !.timer = IF @ = "pending" THEN "cleared" ELSE @], "abort")

\* the event loop runs a timer that is due
TimerFire(id) ==
  /\ id \in 1..Len(sleeps)
  /\ sleeps[id].timer = "pending"
  /\ now >= sleeps[id].due
  /\ timeoutCallback(id)
  /\ UNCHANGED <<aborted, now>>
  /\ UNCHANGED reqVars
  /\ UNCHANGED pureVars

\* controller.abort(): sets signal.aborted and dispatches 'abort' to every
\* registered listener; a {once: true} listener is removed as it is called
Abort ==
  /\ ~aborted
  /\ aborted' = TRUE
  /\ sleeps' = [i \in 1..Len(sleeps) |->
                  IF \E l \in listeners : l.id = i
                  THEN abortHandler(sleeps[i])
                  ELSE sleeps[i]]
  /\ listeners' = {l \in listeners : ~l.once}
  /\ UNCHANGED now
  /\ UNCHANGED reqVars
  /\ UNCHANGED pureVars

\* time passes
Tick(t) ==
  /\ t > now
  /\ now' = t
  /\ UNCHANGED sleepVars
  /\ UNCHANGED reqVars
  /\ UNCHANGED pureVars

\* a direct call sleep(ms, signal)
SleepCall(ms, signal) ==
  /\ Len(sleeps) < MaxSleeps
  /\ sleep(ms, signal)
  /\ UNCHANGED <<aborted, now>>
  /\ UNCHANGED reqVars
  /\ UNCHANGED pureVars

\* ---------------------------------------------------- middleware composition

\* the transports: the process-wide default and an explicit override
GlobalFetch == [kind |-> "transport", name |-> "globalThis.fetch"]
MockFetch == [kind |-> "transport", name |-> "mockFetch"]

\* mw(f, o): a middleware is handed the next call and the configuration; the
\* wrapped call it returns is the record of what it was handed
MwCall(mw, f, o) == [kind |-> "wrapped", mw |-> mw, f |-> f, o |-> o]

RECURSIVE reduceRight(_, _, _)
\* reduce folding from the right: the first-listed middleware ends outermost
reduceRight(middlewares, f, o) ==
  IF middlewares = <<>>
  THEN f
  ELSE MwCall(Head(middlewares), reduceRight(Tail(middlewares), f, o), o)

RECURSIVE reduce(_, _, _)
\* middlewares.reduce((f, mw) => mw(f, o), f)
reduce(middlewares, f, o) ==
  IF middlewares = <<>>
  THEN f
  ELSE reduce(Tail(middlewares), MwCall(Head(middlewares), f, o), o)

\* applyMiddlewares without the "|| []": o.middlewares.reduce throws a
\* TypeError when the list is absent
applyMiddlewaresNoDefault(f, o) ==
  IF "middlewares" \in DOMAIN o
  THEN reduce(o.middlewares, f, o)
  ELSE [kind |-> "thrown", value |-> Err("TypeError")]

\* fetch module, applyMiddlewares(f, o)
applyMiddlewares(f, o) ==
  LET middlewares == IF "middlewares" \in DOMAIN o THEN o.middlewares ELSE <<>>
  IN reduce(middlewares, f, o)

RECURSIVE Chain(_)
\* the wrappers of a call, innermost first
Chain(c) == IF c.kind = "wrapped" THEN Append(Chain(c.f), c) ELSE <<>>

RECURSIVE Innermost(_)
\* the function at the bottom of a call
Innermost(c) == IF c.kind = "wrapped" THEN Innermost(c.f) ELSE c

\* ------------------------------------------------------------ toFetchParams

\* o[x], undefined when o has no such property
Get(o, x) == IF x \in DOMAIN o THEN o[x] ELSE Undefined

\* new URLSearchParams(...) holding the given 'key=value' entries in order
URLSearchParams(entries) == [type |-> "URLSearchParams", entries |-> entries]

RECURSIVE Join(_)
\* the entries separated by '&'
Join(entries) ==
  IF Len(entries) <= 1
  THEN entries
  ELSE <<Head(entries), "&">> \o Join(Tail(entries))

\* searchParams.toString()
toString(searchParams) == Join(searchParams.entries)

\* finalUrl.includes('?')
Includes(t, piece) == \E i \in 1..Len(t) : t[i] = piece

\* the properties the destructuring of toFetchParams takes out of ...rest,
\* without 'with'
StrippedFieldsKeepingWith ==
  {"baseUrl", "url", "searchParams", "fetch", "middlewares", "pipe", "add"}

\* the properties the destructuring of toFetchParams takes out of ...rest
StrippedFields ==
  {"baseUrl", "url", "searchParams", "fetch", "middlewares", "pipe", "add", "with"}

\* toFetchParams with the separator always '?'
toFetchParamsAlwaysQuestion(o) ==
  LET baseUrl == Get(o, "baseUrl")
      searchParams == Get(o, "searchParams")
      url == IF ~Falsy(baseUrl) THEN baseUrl.value \o o.url.value ELSE o.url.value
      finalUrl ==
        IF ~Falsy(searchParams) /\ Len(searchParams.entries) > 0
        THEN url \o <<"?">> \o toString(searchParams)
        ELSE url
  IN [url |-> Str(finalUrl),
      init |-> [x \in DOMAIN o \ StrippedFields |-> o[x]]]

\* fetch module, toFetchParams(o): [finalUrl, rest]
toFetchParams(o) ==
  LET baseUrl == Get(o, "baseUrl")
      searchParams == Get(o, "searchParams")
      url == IF ~Falsy(baseUrl) THEN baseUrl.value \o o.url.value ELSE o.url.value
      separator == IF Includes(url, "?") THEN "&" ELSE "?"
      finalUrl ==
        IF ~Falsy(searchParams) /\ Len(searchParams.entries) > 0
        THEN url \o <<separator>> \o toString(searchParams)
        ELSE url
  IN [url |-> Str(finalUrl),
      init |-> [x \in DOMAIN o \ StrippedFields |-> o[x]]]

\* o.fetch || globalThis.fetch
TransportOf(o) == IF ~Falsy(Get(o, "fetch")) THEN o.fetch ELSE GlobalFetch

\* wrapped(...params): every wrapper calls its next function with the
\* parameters it was given, so the innermost function receives them
Invoke(wrapped, params) == [callee |-> Innermost(wrapped), params |-> params]

\* --------------------------------------------------------- retry middleware

\* middleware.ts createRetryBase(beforeRetry): the middleware that runs
\* retry(() => f(...params), (attempt, err) => beforeRetry(attempt, err, o))
createRetryBase(beforeRetry) == [name |-> "retry", beforeRetry |-> beforeRetry]

\* middleware.ts createRetry(maxRetries)
createRetry(maxRetries) ==
  createRetryBase([fn |-> "createRetry", maxRetries |-> maxRetries])

\* a caller-supplied beforeRetry, settled by the environment
StubBeforeRetry == [fn |-> "stub"]

\* error.cause (undefined when the property is absent)
Cause(e) == IF "cause" \in DOMAIN e THEN e.cause ELSE Undefined

\* createRetryCallback without the isNotRetryError test
createRetryCallbackIgnoresTag(maxRetries, attempt, error) ==
  IF attempt >= maxRetries THEN [do |-> "throw", value |-> error]
  ELSE [do |-> "sleep", value |-> Undefined]

\* createRetryCallback testing the budget before the tag
createRetryCallbackBudgetFirst(maxRetries, attempt, error) ==
  IF attempt >= maxRetries THEN [do |-> "throw", value |-> error]
  ELSE IF isNotRetryError(error) THEN [do |-> "throw", value |-> Cause(error)]
  ELSE [do |-> "sleep", value |-> Undefined]

\* createRetryCallback with the budget test off by one (attempt > maxRetries)
createRetryCallbackOffByOne(maxRetries, attempt, error) ==
  IF isNotRetryError(error) THEN [do |-> "throw", value |-> Cause(error)]
  ELSE IF attempt > maxRetries THEN [do |-> "throw", value |-> error]
  ELSE [do |-> "sleep", value |-> Undefined]

\* createRetryCallback re-throwing the tagged wrapper instead of its cause
createRetryCallbackThrowsWrapper(maxRetries, attempt, error) ==
  IF isNotRetryError(error) THEN [do |-> "throw", value |-> error]
  ELSE IF attempt >= maxRetries THEN [do |-> "throw", value |-> error]
  ELSE [do |-> "sleep", value |-> Undefined]

\* middleware.ts createRetry: the callback up to its first await
\*   if (isNotRetryError(error)) throw error.cause;
\*   if (attempt >= maxRetries) throw error;
\*   await sleep(...)
createRetryCallback(maxRetries, attempt, error) ==
  IF isNotRetryError(error) THEN [do |-> "throw", value |-> Cause(error)]
  ELSE IF attempt >= maxRetries THEN [do |-> "throw", value |-> error]
  ELSE [do |-> "sleep", value |-> Undefined]

\* the delay computed for the attempt after the current one
createRetryDelayNextAttempt(attempt, u) ==
  backoffDelay(attempt + 1, InitialDelay, MaxDelay, Multiplier, u)

\* middleware.ts createRetry: backoffDelay(attempt, 1000, 10000, 2)
createRetryDelay(attempt, u) ==
  backoffDelay(attempt, InitialDelay, MaxDelay, Multiplier, u)

\* sleep called without o.signal
SignalOfDropped(o) == Undefined

\* o.signal
SignalOf(o) == IF "signal" \in DOMAIN o THEN o.signal ELSE Undefined

IdleFrame ==
  [pc |-> "idle", attempt |-> 0, calls |-> 0, before |-> <<>>,
   sleep |-> 0, value |-> Undefined]

\* util.ts retryBase(task, attempt, beforeRetry): task() is called at once;
\* threw is the error task() throws synchronously, or Undefined
retryBase(frame, attempt, threw) ==
  IF threw = Undefined
  THEN [frame EXCEPT !.pc = "task", !.attempt = attempt, !.calls = @ + 1]
  ELSE [frame EXCEPT !.pc = "thrown", !.attempt = attempt, !.calls = @ + 1,
                     !.value = threw]

\* the transport called twice where it is called once
CallTransportTwice(t, threw) ==
  IF threw = Undefined
  THEN [t EXCEPT !.pc = "pending", !.value = Undefined, !.calls = @ + 2]
  ELSE [t EXCEPT !.pc = "thrown", !.value = threw, !.calls = @ + 2,
                 !.log = Append(@, [how |-> "thrown", value |-> threw])]

\* the transport is called; threw is what it throws synchronously, if anything
CallTransport(t, threw) ==
  IF threw = Undefined
  THEN [t EXCEPT !.pc = "pending", !.value = Undefined, !.calls = @ + 1]
  ELSE [t EXCEPT !.pc = "thrown", !.value = threw, !.calls = @ + 1,
                 !.log = Append(@, [how |-> "thrown", value |-> threw])]

\* util.ts retry(task, beforeRetry): retryBase(task, 0, beforeRetry)
retry(threw) == retryBase(IdleFrame, 0, threw)

\* thenRetry giving up by itself after the second attempt
thenRetryCapped(frame, threw) ==
  IF frame.attempt >= 1
  THEN [frame EXCEPT !.pc = "rejected",
                     !.value = frame.before[Len(frame.before)].error]
  ELSE LET next == retryBase(frame, frame.attempt + 1, threw)
       IN IF next.pc = "thrown" THEN [next EXCEPT !.pc = "rejected"] ELSE next

\* thenRetry passing attempt on unchanged
thenRetrySameAttempt(frame, threw) ==
  LET next == retryBase(frame, frame.attempt, threw)
  IN IF next.pc = "thrown" THEN [next EXCEPT !.pc = "rejected"] ELSE next

\* util.ts retryBase: .then(() => retryBase(task, attempt + 1, beforeRetry));
\* an error thrown inside the then-callback rejects the promise
thenRetry(frame, threw) ==
  LET next == retryBase(frame, frame.attempt + 1, threw)
  IN IF next.pc = "thrown" THEN [next EXCEPT !.pc = "rejected"] ELSE next

Depth(r) == Len(Chain(call[r]))

\* what a caller-supplied check(res) throws or rejects with
CheckErrors == {Err("test")}

\* config.ts mapResponse: the middleware
\*   (f, options) => (...params) => f(...params).then((res) => mapper(res, options))
mapResponseMiddleware(mapper) == [name |-> "mapResponse", mapper |-> mapper]

\* config.ts checkError: the mapper async (res) => { await check(res); return res; }
checkErrorMapper(check) == [fn |-> "checkError", check |-> check]

\* config.ts mapResponse wrapper called: f(...params) is called at once and
\* may throw synchronously (threw); otherwise the wrapper waits for it
mapResponseCall(threw) ==
  IF threw = Undefined
  THEN [IdleFrame EXCEPT !.pc = "task", !.calls = 1]
  ELSE [IdleFrame EXCEPT !.pc = "thrown", !.calls = 1, !.value = threw]

\* the wrapped call w is called: the wrapper of the middleware that built it
wrappedCall(w, threw) ==
  IF w.mw.name = "retry" THEN retry(threw) ELSE mapResponseCall(threw)

\* config.ts mapResponse: .then((res) => mapper(res, options)) with the
\* mapper of checkError; p is the settled promise of f(...params), v what
\* check(res) throws or rejects with (Undefined: nothing). A rejection of
\* f(...params) passes through, there being no rejection handler
thenMapper(frame, p, v) ==
  IF p.state = "rejected"
  THEN [frame EXCEPT !.pc = "rejected", !.value = p.value]
  ELSE IF v = Undefined
  THEN [frame EXCEPT !.pc = "resolved", !.value = p.value]
  ELSE [frame EXCEPT !.pc = "rejected", !.value = v]

\* the attempt counter kept once per wrapper position, shared by all the
\* requests the middleware serves
AttemptOfShared(frames, r, i) ==
  LET others == {frames[q][i].attempt : q \in {p \in Reqs : Len(frames[p]) >= i}}
  IN CHOOSE a \in others : \A b \in others : b <= a

\* util.ts retryBase: attempt is a parameter of the invocation, closed over by
\* the catch callback of wrapper i of request r
AttemptOf(frames, r, i) == frames[r][i].attempt

\* the promise returned by the i-th wrapper of request r (0: the transport)
PromiseOf(r, i) ==
  IF i = 0
  THEN [state |-> tr[r].pc, value |-> tr[r].value]
  ELSE [state |-> fr[r][i].pc, value |-> fr[r][i].value]

\* what the caller of fetch(o) observes
Outcome(r) ==
  IF req[r].pc = "called"
  THEN PromiseOf(r, Depth(r))
  ELSE [state |-> req[r].pc, value |-> req[r].value]

\* fetch module, fetch(o): applyMiddlewares(o.fetch || globalThis.fetch, o)
\* is called with the fetch parameters; every retry wrapper calls its task
\* synchronously, down to the transport
fetch(r, threw) ==
  /\ req[r].pc = "idle"
  /\ LET o == cfg[r]
         f == TransportOf(o)
         wrapped == applyMiddlewares(f, o)
     IN /\ call' = [call EXCEPT ![r] = wrapped]
        /\ fr' = [fr EXCEPT ![r] =
                    [i \in 1..Len(Chain(wrapped)) |->
                       wrappedCall(Chain(wrapped)[i], threw)]]
        /\ tr' = [tr EXCEPT ![r] = CallTransport(@, threw)]
        /\ req' = [req EXCEPT ![r] =
                     IF threw = Undefined
                     THEN [pc |-> "called", value |-> Undefined]
                     ELSE [pc |-> "thrown", value |-> threw]]
  /\ UNCHANGED cfg
  /\ UNCHANGED <<sleeps, listeners, aborted, now>>
  /\ UNCHANGED pureVars

\* the transport's promise settles: how is "resolved" or "rejected"
TransportSettle(r, how, v) ==
  /\ tr[r].pc = "pending"
  /\ tr' = [tr EXCEPT ![r] =
              [@ EXCEPT !.pc = how, !.value = v,
                        !.log = Append(@, [how |-> how, value |-> v])]]
  /\ UNCHANGED <<cfg, call, req, fr>>
  /\ UNCHANGED <<sleeps, listeners, aborted, now>>
  /\ UNCHANGED pureVars

\* replaces the last element of a non-empty sequence
SetLast(seq, x) == [seq EXCEPT ![Len(seq)] = x]

\* taskFulfilled calling beforeRetry on a success as well
taskFulfilledCallsBeforeRetry(frame, v) ==
  [frame EXCEPT
     !.pc = "resolved", !.value = v,
     !.before = Append(@, [attempt |-> frame.attempt, error |-> v,
                           result |-> [state |-> "pending", value |-> Undefined]])]

\* util.ts retryBase: task() fulfilled; .catch passes the value through
taskFulfilled(frame, v) == [frame EXCEPT !.pc = "resolved", !.value = v]

\* util.ts retryBase: the catch callback calls beforeRetry(attempt, e)
callBeforeRetry(frame, e) ==
  [frame EXCEPT
     !.pc = "before",
     !.before = Append(@, [attempt |-> frame.attempt, error |-> e,
                           result |-> [state |-> "pending", value |-> Undefined]])]

\* beforeRetryRejected surfacing the task's error instead of v
beforeRetryRejectedWithTaskError(frame, v) ==
  [frame EXCEPT
     !.pc = "rejected", !.value = frame.before[Len(frame.before)].error,
     !.before = SetLast(@, [@[Len(@)] EXCEPT
                              !.result = [state |-> "rejected", value |-> v]])]

\* util.ts retryBase: the promise of beforeRetry rejected with v, so the
\* then-callback is skipped and the promise of retryBase rejects with v
beforeRetryRejected(frame, v) ==
  [frame EXCEPT
     !.pc = "rejected", !.value = v,
     !.before = SetLast(@, [@[Len(@)] EXCEPT
                              !.result = [state |-> "rejected", value |-> v]])]

\* util.ts retryBase: the reaction to the settlement of task(), for the
\* i-th wrapper of request r; u is the Math.random() draw of backoffDelay
\*   task().catch((e) => beforeRetry(attempt, e).then(...))
TaskSettled(r, i, u) ==
  /\ req[r].pc = "called"
  /\ i \in 1..Len(fr[r])
  /\ Chain(call[r])[i].mw.name = "retry"
  /\ fr[r][i].pc = "task"
  /\ PromiseOf(r, i - 1).state \in {"resolved", "rejected"}
  /\ LET p == PromiseOf(r, i - 1)
         w == Chain(call[r])[i]
         b == w.mw.beforeRetry
         frame == [fr[r][i] EXCEPT !.attempt = AttemptOf(fr, r, i)]
         called == callBeforeRetry(frame, p.value)
         d == createRetryCallback(b.maxRetries, frame.attempt, p.value)
     IN IF p.state = "resolved"
        THEN /\ fr' = [fr EXCEPT ![r][i] = taskFulfilled(frame, p.value)]
             /\ UNCHANGED sleepVars
        ELSE IF b.fn = "stub"
        THEN /\ fr' = [fr EXCEPT ![r][i] = called]
             /\ UNCHANGED sleepVars
        ELSE IF d.do = "throw"
        THEN /\ fr' = [fr EXCEPT ![r][i] = beforeRetryRejected(called, d.value)]
             /\ UNCHANGED sleepVars
        ELSE /\ sleep(createRetryDelay(frame.attempt, u), SignalOf(w.o))
             /\ fr' = [fr EXCEPT ![r][i] = [called EXCEPT !.sleep = Len(sleeps) + 1]]
             /\ UNCHANGED aborted
  /\ UNCHANGED <<cfg, call, req, tr, now>>
  /\ UNCHANGED pureVars

\* the promise of beforeRetry(attempt, e) is resolved (createRetry: the awaited
\* sleep has resolved; a caller-supplied callback: the environment resolves
\* it); retryBase calls task() again, which may throw synchronously
BeforeRetryResolved(r, i, threw) ==
  /\ req[r].pc = "called"
  /\ i \in 1..Len(fr[r])
  /\ fr[r][i].pc = "before"
  /\ LET b == Chain(call[r])[i].mw.beforeRetry
         frame == fr[r][i]
         settled == [frame EXCEPT !.before =
                       SetLast(@, [@[Len(@)] EXCEPT
                                     !.result = [state |-> "resolved",
                                                 value |-> Undefined]])]
     IN /\ IF b.fn = "stub"
           THEN frame.attempt < MaxAttempts
           ELSE sleeps[frame.sleep].state = "resolved"
        /\ fr' = [fr EXCEPT ![r] =
                    [j \in 1..Len(fr[r]) |->
                       IF j < i THEN wrappedCall(Chain(call[r])[j], threw)
                       ELSE IF j = i THEN thenRetry(settled, threw)
                       ELSE fr[r][j]]]
  /\ tr' = [tr EXCEPT ![r] = CallTransport(@, threw)]
  /\ UNCHANGED <<cfg, call, req>>
  /\ UNCHANGED <<sleeps, listeners, aborted, now>>
  /\ UNCHANGED pureVars

\* config.ts mapResponse: the reaction of the i-th wrapper of request r, a
\* checkError wrapper, to the settlement of f(...params)
MapperSettled(r, i, v) ==
  /\ req[r].pc = "called"
  /\ i \in 1..Len(fr[r])
  /\ Chain(call[r])[i].mw.name = "mapResponse"
  /\ fr[r][i].pc = "task"
  /\ PromiseOf(r, i - 1).state \in {"resolved", "rejected"}
  /\ fr' = [fr EXCEPT ![r][i] = thenMapper(@, PromiseOf(r, i - 1), v)]
  /\ UNCHANGED <<cfg, call, req, tr>>
  /\ UNCHANGED <<sleeps, listeners, aborted, now>>
  /\ UNCHANGED pureVars

\* a caller-supplied beforeRetry rejects (or throws) with v
BeforeRetryRejected(r, i, v) ==
  /\ req[r].pc = "called"
  /\ i \in 1..Len(fr[r])
  /\ fr[r][i].pc = "before"
  /\ Chain(call[r])[i].mw.beforeRetry.fn = "stub"
  /\ fr' = [fr EXCEPT ![r][i] = beforeRetryRejected(@, v)]
  /\ UNCHANGED <<cfg, call, req, tr>>
  /\ UNCHANGED <<sleeps, listeners, aborted, now>>
  /\ UNCHANGED pureVars

\* ------------------------------------------------------------------ compose

\* no composed function has been called
NoCompose == [pc |-> "none"]

\* the back function returned by the k-th middleware of the list
BackFn(k) == [type |-> "function", of |-> k]

\* typeof r === 'function'
IsFunction(r) == r.type = "function"

\* what the k-th middleware returns: its back function, or a plain value
Returns(middleware, k) ==
  IF IsFunction(middleware[k].returns) THEN BackFn(k) ELSE middleware[k].returns

\* compose.js: composed(context) builds the promise chain; no callback has
\* run yet, the first one will receive the undefined of Promise.resolve()
composed(context) ==
  [pc |-> "chain", k |-> 1, r |-> Undefined, stack |-> <<>>, ctx |-> context,
   ran |-> <<>>, value |-> Undefined, res |-> <<>>, j |-> 0]

\* the reduce callback without `else if (r) return true`
reduceCallbackNoStop(c, middleware) ==
  [c EXCEPT !.stack = IF IsFunction(c.r) THEN <<c.r>> \o @ ELSE @,
            !.ctx = [foo |-> c.k],
            !.ran = Append(@, c.k),
            !.r = Returns(middleware, c.k),
            !.k = @ + 1]

\* compose.js: the k-th callback of the reduce, given the result r of the
\* callback before it:
\*   if (typeof r === 'function') stack.unshift(r);
\*   else if (r) return true;
\*   return f(context);
\* the k-th middleware sets context.foo and returns Returns(middleware, k)
reduceCallback(c, middleware) ==
  IF ~IsFunction(c.r) /\ ~Falsy(c.r)
  THEN [c EXCEPT !.r = Bool(TRUE), !.k = @ + 1]
  ELSE [c EXCEPT !.stack = IF IsFunction(c.r) THEN <<c.r>> \o @ ELSE @,
                 !.ctx = [foo |-> c.k],
                 !.ran = Append(@, c.k),
                 !.r = Returns(middleware, c.k),
                 !.k = @ + 1]

\* compose.js: the last then of composed: its argument is not looked at
\*   if (stack.length) return res => stack.reduce(...)
finalThen(c) ==
  [c EXCEPT !.pc = "resolved",
            !.value = IF Len(c.stack) > 0
                      THEN [type |-> "function", of |-> "stack"]
                      ELSE Undefined]

\* compose(middleware)(ctx) is called
CallComposed ==
  /\ args.fn = "compose"
  /\ comp.pc = "idle"
  /\ comp' = composed(comp.ctx)
  /\ UNCHANGED <<args, result, heap>>
  /\ UNCHANGED reqVars
  /\ UNCHANGED <<sleeps, listeners, aborted, now>>

\* the promise before the k-th callback has resolved: the callback runs
ReduceStep ==
  /\ comp.pc = "chain"
  /\ comp.k <= Len(args.middleware)
  /\ comp' = reduceCallback(comp, args.middleware)
  /\ UNCHANGED <<args, result, heap>>
  /\ UNCHANGED reqVars
  /\ UNCHANGED <<sleeps, listeners, aborted, now>>

\* the promise of the reduce has resolved: the last then runs
FinalThen ==
  /\ comp.pc = "chain"
  /\ comp.k = Len(args.middleware) + 1
  /\ comp' = finalThen(comp)
  /\ UNCHANGED <<args, result, heap>>
  /\ UNCHANGED reqVars
  /\ UNCHANGED <<sleeps, listeners, aborted, now>>

\* index.js fetch: if (fn) return fn(res), with the response 'a':
\* stack.reduce((p, f) => p.then(f), Promise.resolve(res))
CallBackFn ==
  /\ comp.pc = "resolved"
  /\ IsFunction(comp.value)
  /\ comp' = [comp EXCEPT !.pc = "back", !.res = <<"a">>, !.j = 1]
  /\ UNCHANGED <<args, result, heap>>
  /\ UNCHANGED reqVars
  /\ UNCHANGED <<sleeps, listeners, aborted, now>>

\* p.then(f): the j-th function of the stack is applied to the response; the
\* back function of middleware k appends k to it
BackStep ==
  /\ comp.pc = "back"
  /\ comp.j <= Len(comp.stack)
  /\ comp' = [comp EXCEPT !.res = Append(@, comp.stack[comp.j].of),
                          !.j = @ + 1,
                          !.pc = IF comp.j = Len(comp.stack) THEN "done" ELSE "back"]
  /\ UNCHANGED <<args, result, heap>>
  /\ UNCHANGED reqVars
  /\ UNCHANGED <<sleeps, listeners, aborted, now>>

\* ----------------------------------------------------------- specifications

NoSleeps ==
  /\ sleeps = <<>>
  /\ listeners = {}
  /\ aborted = FALSE
  /\ now = 0

NoPureCall ==
  /\ args = [fn |-> "none"]
  /\ result = Undefined
  /\ heap = <<>>
  /\ comp = NoCompose

BaseConfig == [url |-> Str(<<"https://example.com">>), fetch |-> MockFetch]

\* config.ts signal(o, signal)
signal(o, s) == [x \in DOMAIN o \cup {"signal"} |-> IF x = "signal" THEN s ELSE o[x]]

\* use forgetting the middlewares o already has
useDropsExisting(o, middleware) ==
  [x \in DOMAIN o \cup {"middlewares"} |->
     IF x = "middlewares" THEN <<middleware>> ELSE o[x]]

\* config.ts use(o, middleware)
use(o, middleware) ==
  [x \in DOMAIN o \cup {"middlewares"} |->
     IF x = "middlewares"
     THEN (IF "middlewares" \in DOMAIN o THEN o.middlewares ELSE <<>>)
            \o <<middleware>>
     ELSE o[x]]

IdleState ==
  /\ call = [r \in Reqs |-> [kind |-> "none"]]
  /\ req = [r \in Reqs |-> [pc |-> "idle", value |-> Undefined]]
  /\ fr = [r \in Reqs |-> <<>>]
  /\ tr = [r \in Reqs |-> [pc |-> "idle", value |-> Undefined, calls |-> 0, log |-> <<>>]]

\* create({fetch: mockFetch}).pipe(retry, maxRetries), with or without a signal
Init ==
  /\ \E maxRetries \in 0..MaxRetriesBound, withSignal \in BOOLEAN :
       LET o == use(BaseConfig, createRetry(maxRetries))
       IN cfg = [r \in Reqs |-> IF withSignal THEN signal(o, TheSignal) ELSE o]
  /\ IdleState
  /\ NoSleeps
  /\ NoPureCall

RequestStep(r) ==
  \/ \E threw \in {Undefined} \cup PlainErrors : fetch(r, threw)
  \/ \E v \in Responses : TransportSettle(r, "resolved", v)
  \/ \E e \in TransportErrors : TransportSettle(r, "rejected", e)
  \/ \E i \in 1..MaxMw, u \in 0..(RandSteps - 1) : TaskSettled(r, i, u)
  \/ \E i \in 1..MaxMw, threw \in {Undefined} \cup PlainErrors :
       BeforeRetryResolved(r, i, threw)

Next ==
  \/ RequestStep("r1")
  \/ \E id \in 1..Len(sleeps) : TimerFire(id)
  \/ Abort
  \/ \E id \in 1..Len(sleeps) : (sleeps[id].timer = "pending" /\ Tick(sleeps[id].due))

Spec == Init /\ [][Next]_vars

\* the pending transport call of the request settles, one way or the other
TransportSettles ==
  \/ \E v \in Responses : TransportSettle("r1", "resolved", v)
  \/ \E e \in TransportErrors : TransportSettle("r1", "rejected", e)

\* a promise reaction of retryBase runs: the catch handler of task() or the
\* then handler of beforeRetry(attempt, e)
ReactionRuns ==
  \/ \E i \in 1..MaxMw, u \in 0..(RandSteps - 1) : TaskSettled("r1", i, u)
  \/ \E i \in 1..MaxMw, threw \in {Undefined} \cup PlainErrors :
       BeforeRetryResolved("r1", i, threw)

\* the clock reaches the due time of a started timer
TimeElapses ==
  \E id \in 1..Len(sleeps) : (sleeps[id].timer = "pending" /\ Tick(sleeps[id].due))

\* a due timer runs its callback
TimerFires == \E id \in 1..Len(sleeps) : TimerFire(id)

\* the same program where every transport call eventually settles, every
\* started timer eventually fires, and the event loop runs every promise
\* reaction that is ready
SpecFair ==
  /\ Init
  /\ [][Next]_vars
  /\ WF_vars(TransportSettles)
  /\ WF_vars(ReactionRuns)
  /\ WF_vars(TimeElapses)
  /\ WF_vars(TimerFires)

\* two requests made with one configuration, so that one createRetry
\* middleware serves both
InitPair ==
  /\ \E maxRetries \in 0..MaxRetriesBound :
       cfg = [r \in Reqs |-> use(BaseConfig, createRetry(maxRetries))]
  /\ IdleState
  /\ NoSleeps
  /\ NoPureCall

\* the transport fails each request with an error of its own
ErrorFor(r) == IF r = "r1" THEN Err("Test Error") ELSE Err("fail 1")

\* the steps of a request whose transport never throws synchronously
PairStep(r) ==
  \/ fetch(r, Undefined)
  \/ \E v \in Responses : TransportSettle(r, "resolved", v)
  \/ TransportSettle(r, "rejected", ErrorFor(r))
  \/ TaskSettled(r, 1, 0)
  \/ BeforeRetryResolved(r, 1, Undefined)

NextPair ==
  \/ \E r \in Reqs : PairStep(r)
  \/ \E id \in 1..Len(sleeps) : TimerFire(id)
  \/ \E id \in 1..Len(sleeps) : (sleeps[id].timer = "pending" /\ Tick(sleeps[id].due))

SpecPair == InitPair /\ [][NextPair]_vars

\* create({fetch}).pipe(retry, inner).pipe(retry, outer): two createRetry
\* middlewares in one chain
InitNested ==
  /\ \E inner \in 0..MaxRetriesBound, outer \in 0..MaxRetriesBound :
       cfg = [r \in Reqs |->
                use(use(BaseConfig, createRetry(inner)), createRetry(outer))]
  /\ IdleState
  /\ NoSleeps
  /\ NoPureCall

\* what the transport of such a request rejects with: an error, bare or tagged
NestedErrors == {Err("Test Error"), asNotRetryError(Err("Test Error"))}

\* the steps of a request that runs through two wrappers
NestedStep(r) ==
  \/ fetch(r, Undefined)
  \/ \E v \in Responses : TransportSettle(r, "resolved", v)
  \/ \E e \in NestedErrors : TransportSettle(r, "rejected", e)
  \/ \E i \in 1..2 : TaskSettled(r, i, 0)
  \/ \E i \in 1..2 : BeforeRetryResolved(r, i, Undefined)

NextNested ==
  \/ NestedStep("r1")
  \/ \E id \in 1..Len(sleeps) : TimerFire(id)
  \/ \E id \in 1..Len(sleeps) : (sleeps[id].timer = "pending" /\ Tick(sleeps[id].due))

SpecNested == InitNested /\ [][NextNested]_vars

\* config.ts mapResponse(o, mapper)
mapResponse(o, mapper) == use(o, mapResponseMiddleware(mapper))

\* config.ts checkError(o, check)
checkError(o, check) == mapResponse(o, checkErrorMapper(check))

\* a caller-supplied check, whose outcome the environment chooses
StubCheck == [fn |-> "stub"]

\* create({fetch}).pipe(checkError, check).pipe(retry, maxRetries) and
\* create({fetch}).pipe(retry, maxRetries).pipe(checkError, check)
InitCheck ==
  /\ \E maxRetries \in 0..MaxRetriesBound :
       \/ cfg = [r \in Reqs |->
                   use(checkError(BaseConfig, StubCheck), createRetry(maxRetries))]
       \/ cfg = [r \in Reqs |->
                   checkError(use(BaseConfig, createRetry(maxRetries)), StubCheck)]
  /\ IdleState
  /\ NoSleeps
  /\ NoPureCall

\* the steps of a request that runs through a retry and a checkError wrapper
CheckStep(r) ==
  \/ fetch(r, Undefined)
  \/ \E v \in Responses : TransportSettle(r, "resolved", v)
  \/ TransportSettle(r, "rejected", Err("Test Error"))
  \/ \E i \in 1..2 : TaskSettled(r, i, 0)
  \/ \E i \in 1..2 : BeforeRetryResolved(r, i, Undefined)
  \/ \E i \in 1..2, v \in {Undefined} \cup CheckErrors : MapperSettled(r, i, v)

NextCheck ==
  \/ CheckStep("r1")
  \/ \E id \in 1..Len(sleeps) : TimerFire(id)
  \/ \E id \in 1..Len(sleeps) : (sleeps[id].timer = "pending" /\ Tick(sleeps[id].due))

SpecCheck == InitCheck /\ [][NextCheck]_vars

\* retry(task, beforeRetry) with a caller-supplied beforeRetry
InitRetry ==
  /\ cfg = [r \in Reqs |-> use(BaseConfig, createRetryBase(StubBeforeRetry))]
  /\ IdleState
  /\ NoSleeps
  /\ NoPureCall

NextRetry ==
  \/ RequestStep("r1")
  \/ \E i \in 1..MaxMw, v \in TransportErrors : BeforeRetryRejected("r1", i, v)

SpecRetry == InitRetry /\ [][NextRetry]_vars

\* direct calls of sleep(ms, signal), with and without the signal
InitSleep ==
  /\ cfg = [r \in Reqs |-> BaseConfig]
  /\ IdleState
  /\ NoSleeps
  /\ NoPureCall

NextSleep ==
  \/ \E ms \in 0..MaxMs, s \in {Undefined, TheSignal} : SleepCall(ms, s)
  \/ \E id \in 1..Len(sleeps) : TimerFire(id)
  \/ Abort
  \/ (now < MaxTime /\ Tick(now + 1))

SpecSleep == InitSleep /\ [][NextSleep]_vars

\* the symbolic middlewares handed to applyMiddlewares directly
Middlewares == {[name |-> "A"], [name |-> "B"], [name |-> "C"]}

SeqsUpTo(S, n) == UNION {[1..k -> S] : k \in 0..n}

\* a direct call of applyMiddlewares(f, o)
CallApplyMiddlewares ==
  /\ args.fn = "applyMiddlewares"
  /\ result = Undefined
  /\ result' = applyMiddlewares(args.f, args.o)
  /\ UNCHANGED <<args, heap, comp>>
  /\ UNCHANGED reqVars
  /\ UNCHANGED <<sleeps, listeners, aborted, now>>

\* applyMiddlewares(f, o) for either transport and a configuration whose
\* middleware list is absent or holds up to MaxMw middlewares
InitApply ==
  /\ cfg = [r \in Reqs |-> BaseConfig]
  /\ IdleState
  /\ NoSleeps
  /\ result = Undefined
  /\ heap = <<>>
  /\ comp = NoCompose
  /\ \E f \in {GlobalFetch, MockFetch}, withSignal \in BOOLEAN,
        ms \in SeqsUpTo(Middlewares, MaxMw), absent \in BOOLEAN :
       LET base == IF withSignal THEN signal(BaseConfig, TheSignal) ELSE BaseConfig
           o == IF absent THEN base
                ELSE [x \in DOMAIN base \cup {"middlewares"} |->
                        IF x = "middlewares" THEN ms ELSE base[x]]
       IN /\ absent => ms = <<>>
          /\ args = [fn |-> "applyMiddlewares", f |-> f, o |-> o]

NextApply == CallApplyMiddlewares

SpecApply == InitApply /\ [][NextApply]_vars

\* the (non-negative) arguments of direct backoffDelay calls
InitialDelays == {1, 3, 100, InitialDelay}
MaxDelays == {0, 2, 10, MaxDelay}
Multipliers == {0, 1, Multiplier, 3}

\* a direct call of backoffDelay; u is the Math.random() draw
CallBackoffDelay ==
  /\ args.fn = "backoffDelay"
  /\ result = Undefined
  /\ \E u \in 0..(RandSteps - 1) :
       result' = Number(backoffDelay(args.attempt, args.initialDelay,
                                     args.maxDelay, args.multiplier, u))
  /\ UNCHANGED <<args, heap, comp>>
  /\ UNCHANGED reqVars
  /\ UNCHANGED <<sleeps, listeners, aborted, now>>

InitBackoff ==
  /\ cfg = [r \in Reqs |-> BaseConfig]
  /\ IdleState
  /\ NoSleeps
  /\ result = Undefined
  /\ heap = <<>>
  /\ comp = NoCompose
  /\ \E attempt \in 0..MaxAttemptArg, initialDelay \in InitialDelays,
        maxDelay \in MaxDelays, multiplier \in Multipliers :
       args = [fn |-> "backoffDelay", attempt |-> attempt,
               initialDelay |-> initialDelay, maxDelay |-> maxDelay,
               multiplier |-> multiplier]

NextBackoff == CallBackoffDelay

SpecBackoff == InitBackoff /\ [][NextBackoff]_vars

\* the objects the marker functions are called on: a plain Error, {},
\* {[notRetryErrorSymbol]: false} and {[notRetryErrorSymbol]: 1}
InitialHeap ==
  << Err("Test Error"),
     EmptyObject,
     [type |-> "object", notRetryErrorSymbol |-> Bool(FALSE)],
     [type |-> "object", notRetryErrorSymbol |-> Number(1)] >>

\* the primitive arguments of the marker functions
Primitives == {Null, Undefined, Str(<<"string error">>), Number(0)}

\* every value a call can be given: a primitive or a reference to an object
Values(h) == Primitives \cup {Ref(a) : a \in 1..Len(h)}

\* the object a reference points to in heap h; a primitive is itself
Deref(h, v) == IF v.type = "ref" THEN h[v.addr] ELSE v

\* a direct call asNotRetryError(e): new Error(...) allocates the object
CallAsNotRetryError(e) ==
  /\ args.fn \in {"none", "asNotRetryError", "isNotRetryError"}
  /\ Len(heap) < Len(InitialHeap) + MaxWraps
  /\ heap' = Append(heap, asNotRetryError(e))
  /\ UNCHANGED comp
  /\ result' = Ref(Len(heap) + 1)
  /\ args' = [fn |-> "asNotRetryError", e |-> e, before |-> heap]
  /\ UNCHANGED reqVars
  /\ UNCHANGED <<sleeps, listeners, aborted, now>>

\* a direct call isNotRetryError(e)
CallIsNotRetryError(e) ==
  /\ args.fn \in {"none", "asNotRetryError", "isNotRetryError"}
  /\ result' =
       IF PropertyAccessThrows(OrEmpty(Deref(heap, e)))
       THEN [type |-> "throw", value |-> Err("TypeError")]
       ELSE Bool(isNotRetryError(Deref(heap, e)))
  /\ args' = [fn |-> "isNotRetryError", e |-> e, before |-> heap]
  /\ UNCHANGED <<heap, comp>>
  /\ UNCHANGED reqVars
  /\ UNCHANGED <<sleeps, listeners, aborted, now>>

InitMarker ==
  /\ cfg = [r \in Reqs |-> BaseConfig]
  /\ IdleState
  /\ NoSleeps
  /\ args = [fn |-> "none"]
  /\ result = Undefined
  /\ heap = InitialHeap
  /\ comp = NoCompose

NextMarker ==
  \/ \E e \in Values(heap) : CallAsNotRetryError(e)
  \/ \E e \in Values(heap) : CallIsNotRetryError(e)

SpecMarker == InitMarker /\ [][NextMarker]_vars

\* an array object of the heap
Array(items) == [type |-> "array", items |-> items]

\* the configuration objects of heap h (every object that is not an array)
ConfigRefs(h) == {Ref(a) : a \in {b \in 1..Len(h) : "items" \notin DOMAIN h[b]}}

\* the configuration c points to in heap h, its middlewares array read out
Load(h, c) ==
  LET o == h[c.addr]
  IN IF "middlewares" \in DOMAIN o
     THEN [o EXCEPT !.middlewares = h[o.middlewares.addr].items]
     ELSE o

\* { ...o, middlewares: [...] }: the array literal and the object literal each
\* allocate a new object; nothing is assigned to an existing one
Allocate(h, n) ==
  h \o << Array(n.middlewares), [n EXCEPT !.middlewares = Ref(Len(h) + 1)] >>

\* the record kept of a direct call: the heap before it and the calls so far
Called(fn, c, mw) ==
  [fn |-> fn, o |-> c, middleware |-> mw, before |-> heap,
   history |-> args.history \o <<[o |-> c, middleware |-> mw, ret |-> Ref(Len(heap) + 2)]>>]

\* a direct call use(o, middleware) on the configuration c
CallUse(c, mw) ==
  /\ Len(args.history) < MaxUses
  /\ heap' = Allocate(heap, use(Load(heap, c), mw))
  /\ UNCHANGED comp
  /\ result' = Ref(Len(heap) + 2)
  /\ args' = Called("use", c, mw)
  /\ UNCHANGED reqVars
  /\ UNCHANGED <<sleeps, listeners, aborted, now>>

\* config.ts retry(o, maxRetries): use(o, createRetry(maxRetries))
CallRetry(c, maxRetries) ==
  /\ Len(args.history) < MaxUses
  /\ heap' = Allocate(heap, use(Load(heap, c), createRetry(maxRetries)))
  /\ UNCHANGED comp
  /\ result' = Ref(Len(heap) + 2)
  /\ args' = Called("retry", c, createRetry(maxRetries))
  /\ UNCHANGED reqVars
  /\ UNCHANGED <<sleeps, listeners, aborted, now>>

\* a middleware list [A], a base configuration using it, and one without a
\* middlewares field
InitialConfigs ==
  << Array(<<[name |-> "A"]>>),
     [url |-> Str(<<"https://example.com">>), fetch |-> MockFetch,
      middlewares |-> Ref(1)],
     BaseConfig >>

InitUse ==
  /\ cfg = [r \in Reqs |-> BaseConfig]
  /\ IdleState
  /\ NoSleeps
  /\ args = [fn |-> "none", history |-> <<>>]
  /\ result = Undefined
  /\ heap = InitialConfigs
  /\ comp = NoCompose

NextUse ==
  \/ \E c \in ConfigRefs(heap), mw \in Middlewares \ {[name |-> "A"]} : CallUse(c, mw)
  \/ \E c \in ConfigRefs(heap), maxRetries \in 0..MaxRetriesBound : CallRetry(c, maxRetries)

SpecUse == InitUse /\ [][NextUse]_vars

\* the configurations fetch(o) is called with directly
BaseUrls == {Str(<<>>), Str(<<"https://example.com">>),
             Str(<<"https://example.com/api", "?", "v=1">>)}
Urls == {Str(<<"/test">>), Str(<<"/test", "?", "a=1">>)}
SearchParamss == {URLSearchParams(<<>>), URLSearchParams(<<"page=1">>),
                  URLSearchParams(<<"page=1", "limit=10">>)}
MiddlewareLists == {<<>>, <<[name |-> "A"]>>, <<[name |-> "A"], [name |-> "B"]>>}

\* create(o): { ...o, pipe, add: pipe, with: pipe }
PipeFn == [kind |-> "function", name |-> "pipe"]
PipeFields == [pipe |-> PipeFn, add |-> PipeFn, with |-> PipeFn]

\* request options that belong in the option bag
InitFields == [method |-> Str(<<"POST">>), signal |-> TheSignal]

\* o with the property x set to v
With(o, x, v) == [y \in DOMAIN o \cup {x} |-> IF y = x THEN v ELSE o[y]]

\* { ...o, ...p }
Spread(o, p) == [y \in DOMAIN o \cup DOMAIN p |-> IF y \in DOMAIN p THEN p[y] ELSE o[y]]

\* a direct call fetch(o): applyMiddlewares(f, o)(...toFetchParams(o))
CallFetch ==
  /\ args.fn = "fetch"
  /\ result = Undefined
  /\ LET o == args.o
         f == TransportOf(o)
         wrapped == applyMiddlewares(f, o)
         params == toFetchParams(o)
     IN result' = [wrapped |-> wrapped, transport |-> Invoke(wrapped, params)]
  /\ UNCHANGED <<args, heap, comp>>
  /\ UNCHANGED reqVars
  /\ UNCHANGED <<sleeps, listeners, aborted, now>>

InitFetch ==
  /\ cfg = [r \in Reqs |-> BaseConfig]
  /\ IdleState
  /\ NoSleeps
  /\ result = Undefined
  /\ heap = <<>>
  /\ comp = NoCompose
  /\ \E url \in Urls, baseUrl \in BaseUrls \cup {Undefined},
        searchParams \in SearchParamss \cup {Undefined},
        f \in {MockFetch, Undefined}, ms \in MiddlewareLists, absent \in BOOLEAN,
        created \in BOOLEAN, options \in BOOLEAN :
       LET o0 == [url |-> url]
           o1 == IF baseUrl = Undefined THEN o0 ELSE With(o0, "baseUrl", baseUrl)
           o2 == IF searchParams = Undefined THEN o1
                 ELSE With(o1, "searchParams", searchParams)
           o3 == IF f = Undefined THEN o2 ELSE With(o2, "fetch", f)
           o4 == IF absent THEN o3 ELSE With(o3, "middlewares", ms)
           o5 == IF options THEN Spread(o4, InitFields) ELSE o4
           o6 == IF created THEN Spread(o5, PipeFields) ELSE o5
       IN /\ absent => ms = <<>>
          /\ args = [fn |-> "fetch", o |-> o6]

NextFetch == CallFetch

SpecFetch == InitFetch /\ [][NextFetch]_vars

\* what a middleware given to compose returns: nothing, a falsy value, true,
\* another truthy value, or a back function
MiddlewareKinds ==
  {[returns |-> v] : v \in {Undefined, Number(0), Bool(TRUE), Number(1),
                            [type |-> "function"]}}

InitCompose ==
  /\ cfg = [r \in Reqs |-> BaseConfig]
  /\ IdleState
  /\ NoSleeps
  /\ result = Undefined
  /\ heap = <<>>
  /\ \E middleware \in SeqsUpTo(MiddlewareKinds, MaxCompose) :
       args = [fn |-> "compose", middleware |-> middleware]
  /\ comp = [pc |-> "idle", ctx |-> [foo |-> 0]]

NextCompose ==
  \/ CallComposed
  \/ ReduceStep
  \/ FinalThen
  \/ CallBackFn
  \/ BackStep

SpecCompose == InitCompose /\ [][NextCompose]_vars

\* ------------------------------------------------------------------ claims

\* the request the single-request specifications run
R == "r1"

\* the retry invocation of the (only) retry wrapper of R
Frame == fr[R][1]
Started == req[R].pc = "called" /\ Len(fr[R]) = 1
Log == tr[R].log
MaxRetriesOf == cfg[R].middlewares[1].beforeRetry.maxRetries

AllPlainRejections(log) ==
  \A j \in 1..Len(log) : log[j].how = "rejected" /\ log[j].value \in PlainErrors

\* C1: createRetry(maxRetries) around a transport whose every call rejects
\* with an untagged error: the transport is invoked exactly maxRetries + 1
\* times, and then the wrapped call rejects with the error of the last
\* transport call, unchanged.
C1_ExhaustedRetries ==
  (Started /\ AllPlainRejections(Log)) =>
    /\ tr[R].calls <= MaxRetriesOf + 1
    /\ Outcome(R).state \in {"pending", "task", "before", "rejected"}
    /\ Outcome(R).state = "rejected" =>
         /\ tr[R].calls = MaxRetriesOf + 1
         /\ Len(Log) = MaxRetriesOf + 1
         /\ Outcome(R).value = Log[Len(Log)].value
    /\ (Len(Log) = MaxRetriesOf + 1 /\ Frame.pc # "task") =>
         Outcome(R).state = "rejected"

C1_Witness ==
  /\ Started
  /\ AllPlainRejections(Log)
  /\ MaxRetriesOf = 2
  /\ tr[R].calls = 3
  /\ Outcome(R).state = "rejected"
  /\ Log[1].value # Log[3].value
  /\ Outcome(R).value = Log[3].value

\* C2: when a transport call rejects with an error tagged by asNotRetryError,
\* on the first call or on a later attempt, the transport is not invoked
\* again, no backoff sleep is started, and the wrapped call rejects with the
\* tagged error's cause, not with the tagged wrapper.
C2_NotRetryable ==
  (Started /\ Log # <<>> /\ Log[Len(Log)].how = "rejected"
     /\ Log[Len(Log)].value \in TaggedErrors) =>
    LET e == Log[Len(Log)].value
    IN /\ tr[R].calls = Len(Log)
       /\ Len(sleeps) = Len(Log) - 1
       /\ Frame.pc \in {"task", "rejected"}
       /\ Frame.pc # "task" =>
            /\ Outcome(R) = [state |-> "rejected", value |-> e.cause]
            /\ Outcome(R).value # e
            /\ Outcome(R).value \in PlainErrors

C2_Witness ==
  /\ Started
  /\ Len(Log) = 2
  /\ Log[2].how = "rejected"
  /\ Log[2].value \in TaggedErrors
  /\ Log[2].value.cause # Log[1].value
  /\ Len(sleeps) = 1
  /\ Outcome(R) = [state |-> "rejected", value |-> Log[2].value.cause]

\* C3: retry(task, beforeRetry) where the first call of task resolves: retry
\* resolves with that same result, task is called exactly once, and
\* beforeRetry is never called.
C3_FirstSuccess ==
  (Started /\ Log # <<>> /\ Log[1].how = "resolved") =>
    /\ Len(Log) = 1
    /\ tr[R].calls = 1
    /\ Frame.calls = 1
    /\ Frame.before = <<>>
    /\ Frame.pc \in {"task", "resolved"}
    /\ Frame.pc # "task" =>
         Outcome(R) = [state |-> "resolved", value |-> Log[1].value]

C3_Witness ==
  /\ Started
  /\ Len(Log) = 1
  /\ Log[1].how = "resolved"
  /\ Outcome(R) = [state |-> "resolved", value |-> Log[1].value]
  /\ Frame.before = <<>>

\* C4: for every k >= 0, if task rejects on its first k calls and resolves on
\* call k + 1 (beforeRetry resolving every time), retry resolves with that
\* success value, task is called exactly k + 1 times, and beforeRetry is
\* called exactly k times, with attempts 0, 1, ..., k - 1 in that order, the
\* i-th call receiving the rejection value of the i-th task call.
C4_EventualSuccess ==
  LET n == Len(Log)
  IN (Started /\ n >= 1 /\ Log[n].how = "resolved"
        /\ \A j \in 1..(n - 1) : Log[j].how = "rejected") =>
       /\ tr[R].calls = n
       /\ Frame.calls = n
       /\ Len(Frame.before) = n - 1
       /\ \A j \in 1..(n - 1) :
            /\ Frame.before[j].attempt = j - 1
            /\ Frame.before[j].error = Log[j].value
            /\ Frame.before[j].result.state = "resolved"
       /\ Frame.pc \in {"task", "resolved"}
       /\ Frame.pc # "task" =>
            Outcome(R) = [state |-> "resolved", value |-> Log[n].value]

C4_Witness ==
  /\ Started
  /\ Len(Log) = 3
  /\ Log[1].how = "rejected"
  /\ Log[2].how = "rejected"
  /\ Log[1].value # Log[2].value
  /\ Log[3].how = "resolved"
  /\ Outcome(R) = [state |-> "resolved", value |-> Log[3].value]
  /\ Len(Frame.before) = 2

\* C5: if task keeps rejecting and beforeRetry resolves for attempts 0..n-1
\* and rejects on the call with attempt index n, retry rejects with exactly
\* the value beforeRetry rejected with (even when it differs from the task's
\* error), task has been called exactly n + 1 times and beforeRetry exactly
\* n + 1 times, and neither is called again afterwards.
C5_BeforeRetryRejects ==
  Started =>
    \A j \in 1..Len(Frame.before) :
      Frame.before[j].result.state = "rejected" =>
        LET n == Frame.before[j].attempt
        IN /\ j = Len(Frame.before)
           /\ j = n + 1
           /\ Frame.calls = n + 1
           /\ tr[R].calls = n + 1
           /\ Len(Log) = n + 1
           /\ \A i \in 1..(n + 1) : Log[i].how = "rejected"
           /\ \A i \in 1..n : Frame.before[i].result.state = "resolved"
           /\ Outcome(R) = [state |-> "rejected",
                            value |-> Frame.before[j].result.value]

C5_Witness ==
  /\ Started
  /\ Len(Frame.before) = 3
  /\ Frame.before[3].attempt = 2
  /\ Frame.before[3].result.state = "rejected"
  /\ Frame.before[3].result.value # Frame.before[3].error
  /\ Outcome(R) = [state |-> "rejected", value |-> Frame.before[3].result.value]
  /\ tr[R].calls = 3

RECURSIVE Nested(_, _, _)
\* m[n](... m[2](m[1](t, c), c) ..., c), built from the outermost inwards
Nested(ms, t, c) ==
  IF ms = <<>>
  THEN t
  ELSE MwCall(ms[Len(ms)], Nested(SubSeq(ms, 1, Len(ms) - 1), t, c), c)

Applied == args.fn = "applyMiddlewares" /\ result # Undefined
ListOf(o) == IF "middlewares" \in DOMAIN o THEN o.middlewares ELSE <<>>

\* C6: applyMiddlewares(t, c) with c.middlewares = [m0, ..., mn-1] returns
\* mn-1(... m1(m0(t, c), c) ..., c): each middleware is handed the result of
\* the previous one and the same configuration c, m0 is innermost (its next
\* call is the transport t) and the last-listed middleware is outermost.
C6_CompositionOrder ==
  Applied =>
    LET ms == ListOf(args.o)
        ws == Chain(result)
    IN /\ result = Nested(ms, args.f, args.o)
       /\ Len(ws) = Len(ms)
       /\ Innermost(result) = args.f
       /\ \A i \in 1..Len(ws) :
            /\ ws[i].mw = ms[i]
            /\ ws[i].o = args.o
            /\ ws[i].f = IF i = 1 THEN args.f ELSE ws[i - 1]
       /\ ms # <<>> =>
            /\ result.mw = ms[Len(ms)]
            /\ ws[1].mw = ms[1]
            /\ ws[1].f = args.f

C6_Witness ==
  /\ Applied
  /\ Len(ListOf(args.o)) = 3
  /\ ListOf(args.o)[1] # ListOf(args.o)[2]
  /\ ListOf(args.o)[2] # ListOf(args.o)[3]
  /\ result.mw = ListOf(args.o)[3]
  /\ result.f.f.f = args.f

\* C7: applyMiddlewares(t, c) returns t itself, unchanged, when c.middlewares
\* is absent or is the empty list.
C7_EmptyIsIdentity ==
  (Applied /\ ListOf(args.o) = <<>>) => result = args.f

C7_Witness ==
  /\ Applied
  /\ "middlewares" \notin DOMAIN args.o
  /\ result = args.f

\* C8: sleep(ms, signal) called with a signal that is already aborted
\* resolves immediately, without scheduling a timer and without registering
\* an abort listener on the signal.
C8_AlreadyAborted ==
  \A i \in 1..Len(sleeps) :
    (HasSignal(sleeps[i].signal) /\ sleeps[i].calledAborted) =>
      /\ sleeps[i].state = "resolved"
      /\ sleeps[i].at = sleeps[i].start
      /\ sleeps[i].timer = "none"
      /\ \A l \in listeners : l.id # i

C8_Witness ==
  \E i \in 1..Len(sleeps) :
    /\ HasSignal(sleeps[i].signal)
    /\ sleeps[i].calledAborted
    /\ sleeps[i].ms > 0
    /\ sleeps[i].state = "resolved"
    /\ now = sleeps[i].start

\* C9: if the signal passed to sleep(ms, signal) is aborted while the sleep is
\* waiting, the sleep resolves at that moment (not at ms) and its pending
\* timer is cancelled, so the timer callback never runs afterwards.
C9_AbortWhileWaiting ==
  [][\A i \in 1..Len(sleeps) :
       /\ (~aborted /\ aborted' /\ HasSignal(sleeps[i].signal)
             /\ sleeps[i].state = "pending") =>
            /\ sleeps'[i].state = "resolved"
            /\ sleeps'[i].at = now
            /\ sleeps'[i].by = "abort"
            /\ sleeps'[i].timer = "cleared"
       /\ sleeps[i].by = "abort" =>
            /\ sleeps[i].timer = "cleared"
            /\ sleeps'[i] = sleeps[i]]_vars

C9_Witness ==
  \E i \in 1..Len(sleeps) :
    /\ sleeps[i].by = "abort"
    /\ sleeps[i].at < sleeps[i].due
    /\ now > sleeps[i].due
    /\ sleeps[i].timer = "cleared"

\* C10: once a sleep(ms, signal) has resolved, by timer expiry or by abort, it
\* holds no abort listener on the signal and no pending timer; over any
\* sequence of sleeps sharing one signal, the number of abort listeners
\* registered by sleep equals the number of sleeps still pending.
C10_NoLeakedListener ==
  /\ \A i \in 1..Len(sleeps) :
       sleeps[i].state = "resolved" =>
         /\ sleeps[i].timer # "pending"
         /\ \A l \in listeners : l.id # i
  /\ Cardinality(listeners) =
       Cardinality({i \in 1..Len(sleeps) :
                      HasSignal(sleeps[i].signal) /\ sleeps[i].state = "pending"})

C10_Witness ==
  \E i, j \in 1..Len(sleeps) :
    /\ HasSignal(sleeps[i].signal)
    /\ sleeps[i].by = "timer"
    /\ HasSignal(sleeps[j].signal)
    /\ sleeps[j].state = "pending"
    /\ listeners = {[id |-> j, once |-> TRUE]}

\* C11: the promise returned by sleep never rejects: in every interleaving of
\* timer expiry and signal abort (abort before the call, during the wait,
\* after expiry, or never) it is pending or resolved, it is resolved once its
\* timer has fired or its signal has aborted, and while it is pending its
\* timer is still scheduled.
C11_SleepNeverRejects ==
  \A i \in 1..Len(sleeps) :
    /\ sleeps[i].state \in {"pending", "resolved"}
    /\ sleeps[i].timer = "fired" => sleeps[i].state = "resolved"
    /\ (HasSignal(sleeps[i].signal) /\ aborted) => sleeps[i].state = "resolved"
    /\ sleeps[i].state = "pending" => sleeps[i].timer = "pending"
    /\ sleeps[i].state = "resolved" =>
         sleeps[i].by \in {"timer", "abort", "already aborted"}

C11_Witness ==
  \E i, j \in 1..Len(sleeps) :
    /\ HasSignal(sleeps[i].signal)
    /\ sleeps[i].by = "timer"
    /\ sleeps[i].ms > 0
    /\ aborted
    /\ sleeps[j].by = "already aborted"
    /\ sleeps[j].state = "resolved"

\* the configuration of R carries the signal
WithSignal == "signal" \in DOMAIN cfg[R]

\* C12: aborting the configuration's signal during or before a backoff wait of
\* createRetry(maxRetries) ends that wait and every later wait immediately
\* but does not stop the retry loop: against a transport that always rejects
\* with an untagged error the transport is still invoked maxRetries + 1 times
\* before the wrapped call rejects.
C12_AbortShortensWaitOnly ==
  (Started /\ WithSignal /\ aborted) =>
    /\ \A i \in 1..Len(sleeps) :
         /\ sleeps[i].state = "resolved"
         /\ sleeps[i].calledAborted =>
              (sleeps[i].at = sleeps[i].start /\ sleeps[i].timer = "none")
    /\ Frame.pc = "before" => sleeps[Frame.sleep].state = "resolved"
    /\ AllPlainRejections(Log) =>
         /\ Outcome(R).state \in {"task", "before", "rejected"}
         /\ Outcome(R).state = "rejected" => tr[R].calls = MaxRetriesOf + 1
         /\ (Len(Log) <= MaxRetriesOf /\ tr[R].calls = Len(Log)) =>
              Frame.pc \in {"task", "before"}

C12_Witness ==
  /\ Started
  /\ WithSignal
  /\ aborted
  /\ AllPlainRejections(Log)
  /\ MaxRetriesOf = 2
  /\ Len(sleeps) = 2
  /\ sleeps[1].by = "abort"
  /\ sleeps[1].at < sleeps[1].due
  /\ sleeps[2].by = "already aborted"
  /\ tr[R].calls = 3
  /\ Outcome(R).state = "rejected"

\* the capped delay of the direct backoffDelay call
Capped == CappedDelay(args.attempt, args.initialDelay, args.maxDelay, args.multiplier)

BackoffReturned == args.fn = "backoffDelay" /\ result.type = "number"

TaggedTrue(x) ==
  /\ "notRetryErrorSymbol" \in DOMAIN x
  /\ x.notRetryErrorSymbol = Bool(TRUE)

\* C14: for every value e (an Error or not), asNotRetryError(e) returns a new
\* error w such that isNotRetryError(w) is true, w.cause is e itself and
\* w.message is the fixed constant; e itself is not modified, so
\* isNotRetryError(e) stays false when e was untagged.
C14_WrapTagsNewError ==
  args.fn = "asNotRetryError" =>
    LET e == args.e
        old == args.before
        w == result
    IN /\ w.type = "ref"
       /\ w.addr \notin 1..Len(old)
       /\ w.addr \in 1..Len(heap)
       /\ heap[w.addr].type = "Error"
       /\ isNotRetryError(Deref(heap, w))
       /\ Cause(heap[w.addr]) = e
       /\ heap[w.addr].message = "Not retryable error"
       /\ \A a \in 1..Len(old) : heap[a] = old[a]
       /\ ~isNotRetryError(Deref(old, e)) => ~isNotRetryError(Deref(heap, e))

C14_Witness ==
  /\ args.fn = "asNotRetryError"
  /\ args.e.type = "ref"
  /\ heap[args.e.addr] \in PlainErrors
  /\ result.type = "ref"
  /\ heap[result.addr].cause = args.e
  /\ ~isNotRetryError(Deref(heap, args.e))

\* C15: isNotRetryError(v) never throws and returns true only when v is
\* non-null, non-undefined and carries the tag set to exactly true; it returns
\* false for null, undefined, plain errors, objects without the tag, and
\* objects whose tag is false.
C15_IsNotRetryErrorTotal ==
  args.fn = "isNotRetryError" =>
    LET v == args.e
        x == Deref(heap, v)
    IN /\ result.type = "boolean"
       /\ result.value => (v \notin {Null, Undefined} /\ TaggedTrue(x))
       /\ ( \/ v \in {Null, Undefined}
            \/ x \in PlainErrors
            \/ "notRetryErrorSymbol" \notin DOMAIN x
            \/ x.notRetryErrorSymbol = Bool(FALSE) ) => result = Bool(FALSE)
       /\ (v.type = "ref" /\ TaggedTrue(x)) => result = Bool(TRUE)

C15_Witness ==
  /\ args.fn = "isNotRetryError"
  /\ args.e.type = "ref"
  /\ "notRetryErrorSymbol" \in DOMAIN heap[args.e.addr]
  /\ heap[args.e.addr].notRetryErrorSymbol = Number(1)
  /\ result = Bool(FALSE)
  /\ \E a \in 1..Len(heap) : TaggedTrue(heap[a]) /\ heap[a].cause = Null

\* the middleware list of the configuration c in heap h
MiddlewaresOf(h, c) == ListOf(Load(h, c))

\* C16: use(o, mw) returns a new configuration whose middleware list is o's
\* list followed by mw, and leaves o and o's middleware list unchanged; so two
\* configurations derived from one base by different use / retry calls have
\* independent chains, and the middleware added last is the outermost wrapper
\* at execution.
C16_UseAppendsToCopy ==
  args.fn \in {"use", "retry"} =>
    /\ result \in ConfigRefs(heap) \ ConfigRefs(args.before)
    /\ MiddlewaresOf(heap, result) =
         MiddlewaresOf(args.before, args.o) \o <<args.middleware>>
    /\ \A a \in 1..Len(args.before) : heap[a] = args.before[a]
    /\ \A c, d \in ConfigRefs(heap) :
         ("middlewares" \in DOMAIN heap[c.addr] /\ "middlewares" \in DOMAIN heap[d.addr]
            /\ c # d) => heap[c.addr].middlewares # heap[d.addr].middlewares
    /\ \A k \in 1..Len(args.history) :
         LET h == args.history[k]
             o == Load(heap, h.ret)
         IN /\ MiddlewaresOf(heap, h.ret) = MiddlewaresOf(heap, h.o) \o <<h.middleware>>
            /\ applyMiddlewares(o.fetch, o).mw = h.middleware
            /\ Len(Chain(applyMiddlewares(o.fetch, o))) = Len(o.middlewares)
            /\ \A i \in 1..Len(o.middlewares) :
                 Chain(applyMiddlewares(o.fetch, o))[i].mw = o.middlewares[i]

C16_Witness ==
  /\ args.fn = "retry"
  /\ Len(args.history) = 2
  /\ args.history[1].o = Ref(2)
  /\ args.history[2].o = Ref(2)
  /\ args.history[1].middleware = [name |-> "B"]
  /\ MiddlewaresOf(heap, args.history[1].ret) = <<[name |-> "A"], [name |-> "B"]>>
  /\ MiddlewaresOf(heap, result) = <<[name |-> "A"], createRetry(1)>>
  /\ MiddlewaresOf(heap, Ref(2)) = <<[name |-> "A"]>>

Fetched == args.fn = "fetch" /\ result # Undefined

\* C17: the address given to the transport is baseUrl followed by url when
\* baseUrl is set, and url alone otherwise; when searchParams is non-empty its
\* serialization is appended after '?' if the address so far contains no '?'
\* and after '&' if it does; when searchParams is absent or empty nothing is
\* appended.
C17_Address ==
  Fetched =>
    LET o == args.o
        address == result.transport.params.url.value
        sofar == IF "baseUrl" \in DOMAIN o
                 THEN o.baseUrl.value \o o.url.value
                 ELSE o.url.value
        nonEmpty == "searchParams" \in DOMAIN o /\ o.searchParams.entries # <<>>
        n == Len(sofar)
    IN /\ result.transport.params.url.type = "string"
       /\ SubSeq(address, 1, n) = sofar
       /\ ~nonEmpty => address = sofar
       /\ nonEmpty =>
            /\ address[n + 1] = (IF \E i \in 1..n : sofar[i] = "?" THEN "&" ELSE "?")
            /\ SubSeq(address, n + 2, Len(address)) = toString(o.searchParams)
            /\ \A k \in 1..Len(o.searchParams.entries) :
                 address[n + 2 * k] = o.searchParams.entries[k]

C17_Witness ==
  /\ Fetched
  /\ args.o.url = Str(<<"/test", "?", "a=1">>)
  /\ "baseUrl" \in DOMAIN args.o
  /\ args.o.baseUrl = Str(<<"https://example.com">>)
  /\ result.transport.params.url =
       Str(<<"https://example.com", "/test", "?", "a=1", "&", "page=1", "&", "limit=10">>)

\* C18: fetch(o) calls, as the innermost function of the chain, o.fetch when
\* it is set and globalThis.fetch otherwise, and the option bag it passes holds
\* every field of o except baseUrl, url, searchParams, fetch, middlewares,
\* pipe, add and with, each with its configured value, and none of those eight.
C18_TransportAndOptionBag ==
  Fetched =>
    LET o == args.o
        bag == result.transport.params.init
    IN /\ result.transport.callee =
            (IF "fetch" \in DOMAIN o THEN o.fetch ELSE GlobalFetch)
       /\ Innermost(result.wrapped) = result.transport.callee
       /\ Len(Chain(result.wrapped)) = Len(ListOf(o))
       /\ DOMAIN bag =
            DOMAIN o \ {"baseUrl", "url", "searchParams", "fetch", "middlewares",
                        "pipe", "add", "with"}
       /\ \A x \in DOMAIN bag : bag[x] = o[x]

C18_Witness ==
  /\ Fetched
  /\ "fetch" \notin DOMAIN args.o
  /\ {"pipe", "add", "with", "middlewares", "searchParams", "baseUrl"} \subseteq DOMAIN args.o
  /\ Len(args.o.middlewares) = 2
  /\ result.transport.callee = GlobalFetch
  /\ result.transport.params.init = InitFields

\* the retry invocation serving request r, and what its transport saw
FrameOf(r) == fr[r][1]
StartedReq(r) == req[r].pc = "called" /\ Len(fr[r]) = 1
MaxRetriesIn(r) == cfg[r].middlewares[1].beforeRetry.maxRetries

\* C19: the attempt counter belongs to one invocation of the wrapped call:
\* when the same createRetry(maxRetries) middleware serves two requests whose
\* steps interleave, each request's beforeRetry sees attempts 0, 1, 2, ... of
\* its own failures only, and each request gets its full budget of maxRetries
\* retries regardless of the other's failures.
C19_AttemptPerInvocation ==
  \A r \in Reqs :
    StartedReq(r) =>
      LET before == FrameOf(r).before
          log == tr[r].log
      IN /\ Len(before) <= Len(log)
         /\ \A j \in 1..Len(before) :
              /\ before[j].attempt = j - 1
              /\ log[j].how = "rejected"
              /\ before[j].error = log[j].value
         /\ AllPlainRejections(log) =>
              /\ tr[r].calls <= MaxRetriesIn(r) + 1
              /\ Outcome(r).state \in {"pending", "task", "before", "rejected"}
              /\ Outcome(r).state = "rejected" =>
                   /\ tr[r].calls = MaxRetriesIn(r) + 1
                   /\ Outcome(r).value = log[Len(log)].value
              /\ (Len(log) = MaxRetriesIn(r) + 1 /\ FrameOf(r).pc # "task") =>
                   Outcome(r).state = "rejected"

C19_Witness ==
  /\ StartedReq("r1")
  /\ StartedReq("r2")
  /\ MaxRetriesIn("r1") = 2
  /\ FrameOf("r1").attempt = 2
  /\ FrameOf("r1").pc = "task"
  /\ \A j \in 1..2 : tr["r1"].log[j].value = Err("Test Error")
  /\ Len(FrameOf("r2").before) = 1
  /\ FrameOf("r2").before[1].attempt = 0
  /\ FrameOf("r2").before[1].error = Err("fail 1")
  /\ FrameOf("r2").pc = "before"
  /\ FrameOf("r2").sleep = 3

\* C20: in createRetry(maxRetries) a tagged non-retryable error is checked
\* before the retry budget: when the failure that exhausts the budget
\* (attempt >= maxRetries, including maxRetries = 0) is tagged, the wrapped
\* call rejects with the untagged cause, not with the tagged wrapper.
C20_TagBeforeBudget ==
  Started =>
    \A j \in 1..Len(Frame.before) :
      LET b == Frame.before[j]
      IN (b.attempt >= MaxRetriesOf /\ isNotRetryError(b.error)) =>
           /\ j = Len(Frame.before)
           /\ b.error = Log[Len(Log)].value
           /\ Outcome(R).state = "rejected"
           /\ Outcome(R).value = Cause(b.error)
           /\ Outcome(R).value # b.error
           /\ ~isNotRetryError(Outcome(R).value)
           /\ tr[R].calls = MaxRetriesOf + 1

C20_Witness ==
  /\ Started
  /\ MaxRetriesOf = 2
  /\ Len(Frame.before) = 3
  /\ Frame.before[3].attempt = 2
  /\ Frame.before[3].error = asNotRetryError(Err("fail 1"))
  /\ \A j \in 1..2 : ~isNotRetryError(Frame.before[j].error)
  /\ Outcome(R) = [state |-> "rejected", value |-> Err("fail 1")]

\* the beforeRetry calls of the invocation that have resolved so far
ResolvedBefore == {j \in 1..Len(Frame.before) : Frame.before[j].result.state = "resolved"}

\* C21: the retry engine has no attempt cap of its own: as long as task keeps
\* rejecting and beforeRetry keeps resolving, task is invoked again after every
\* beforeRetry resolution, for any number of attempts, and retry's promise
\* stays pending.
C21_NoInternalCap ==
  (Started
     /\ (\A j \in 1..Len(Log) : Log[j].how = "rejected")
     /\ (\A k \in 1..Len(Frame.before) : Frame.before[k].result.state # "rejected")) =>
    /\ Frame.pc \in {"task", "before"}
    /\ Outcome(R).state \in {"task", "before"}
    /\ tr[R].calls = Cardinality(ResolvedBefore) + 1
    /\ Frame.calls = tr[R].calls
    /\ Frame.attempt = Cardinality(ResolvedBefore)
    /\ Frame.pc = "task" => Len(Frame.before) = Cardinality(ResolvedBefore)

C21_Witness ==
  /\ Started
  /\ (\A j \in 1..Len(Log) : Log[j].how = "rejected")
  /\ Len(Log) = MaxAttempts
  /\ Cardinality(ResolvedBefore) = MaxAttempts
  /\ Frame.attempt = MaxAttempts
  /\ tr[R].calls = MaxAttempts + 1
  /\ Frame.pc = "task"

Composing == args.fn = "compose" /\ comp.pc \in {"chain", "resolved", "back", "done"}

RECURSIVE BacksUpTo(_, _)
\* the back functions returned by the first n middlewares, in list order
BacksUpTo(middleware, n) ==
  IF n = 0 THEN <<>>
  ELSE IF IsFunction(middleware[n].returns)
       THEN Append(BacksUpTo(middleware, n - 1), BackFn(n))
       ELSE BacksUpTo(middleware, n - 1)

Reverse(q) == [i \in 1..Len(q) |-> q[Len(q) + 1 - i]]

\* the response after the given functions have been applied to 'a' in order
AppliedTo(fs) == <<"a">> \o [i \in 1..Len(fs) |-> fs[i].of]

\* the middlewares that stop the chain: they return a truthy non-function
Stops(middleware, k) ==
  ~IsFunction(middleware[k].returns) /\ ~Falsy(middleware[k].returns)

\* C22: compose(middleware)(ctx) runs the middlewares one at a time
\* in list order on the same ctx, each starting only after the previous one's
\* result has resolved, and the function it resolves to applies every back
\* function returned by a middleware, in reverse order of the middlewares that
\* returned them.
C22_ComposeOrderAndBack ==
  Composing =>
    LET ran == comp.ran
        backs == BacksUpTo(args.middleware, Len(ran))
    IN /\ \A i \in 1..Len(ran) : ran[i] = i
       /\ comp.k >= Len(ran) + 1
       /\ comp.pc \in {"resolved", "back", "done"} =>
            /\ comp.stack = Reverse(backs)
            /\ backs # <<>> => IsFunction(comp.value)
       /\ comp.pc = "done" => comp.res = AppliedTo(Reverse(backs))

\* C23: in compose, when a middleware returns a truthy value that is not a
\* function, no later middleware in the list is run, ctx keeps the changes
\* made up to and including that middleware, and the back functions returned
\* by earlier middlewares are still applied to the response.
C23_StopInMiddleware ==
  Composing =>
    \A s \in 1..Len(comp.ran) :
      Stops(args.middleware, s) =>
        LET earlier == BacksUpTo(args.middleware, s - 1)
        IN /\ Len(comp.ran) = s
           /\ comp.ctx = [foo |-> s]
           /\ comp.pc \in {"resolved", "back", "done"} =>
                /\ comp.stack = Reverse(earlier)
                /\ earlier # <<>> => IsFunction(comp.value)
           /\ comp.pc = "done" => comp.res = AppliedTo(Reverse(earlier))

C23_Witness ==
  /\ Composing
  /\ Len(args.middleware) = 3
  /\ IsFunction(args.middleware[1].returns)
  /\ args.middleware[2].returns = Bool(TRUE)
  /\ IsFunction(args.middleware[3].returns)
  /\ comp.pc = "done"
  /\ comp.ran = <<1, 2>>
  /\ comp.ctx = [foo |-> 2]
  /\ comp.res = <<"a", 1>>

\* C24: for any transport behaviour (any mix of successes, untagged failures
\* and tagged failures), one invocation of the wrapped call of
\* createRetry(maxRetries) invokes the transport at most maxRetries + 1 times,
\* and never again after a transport call has resolved or has rejected with a
\* tagged error; on a transport success the wrapped call resolves with that
\* response.
C24_BoundedTransportCalls ==
  /\ tr[R].calls <= MaxRetriesOf + 1
  /\ Len(Log) <= tr[R].calls
  /\ Started =>
       \A j \in 1..Len(Log) :
         /\ (Log[j].how = "resolved"
               \/ (Log[j].how = "rejected" /\ isNotRetryError(Log[j].value))) =>
              (j = Len(Log) /\ tr[R].calls = j)
         /\ Log[j].how = "resolved" =>
              /\ Frame.pc \in {"task", "resolved"}
              /\ Frame.pc = "resolved" =>
                   Outcome(R) = [state |-> "resolved", value |-> Log[j].value]

C24_Witness ==
  /\ Started
  /\ MaxRetriesOf = 2
  /\ Len(Log) = 2
  /\ Log[1].how = "rejected"
  /\ ~isNotRetryError(Log[1].value)
  /\ Log[2].how = "resolved"
  /\ tr[R].calls = 2
  /\ Outcome(R) = [state |-> "resolved", value |-> Log[2].value]

\* the task calls of the invocation that have started and not yet settled
InFlight == tr[R].calls - Len(Log)

\* C25: within one retry invocation at most one task call is in flight at any
\* time: task call k + 1 starts only after task call k has rejected and the
\* beforeRetry call for it has resolved, and beforeRetry is never called while
\* a task call is pending.
C25_OneTaskInFlight ==
  /\ InFlight \in {0, 1}
  /\ InFlight = 1 <=> tr[R].pc = "pending"
  /\ Started =>
       /\ tr[R].calls <= Cardinality(ResolvedBefore) + 1
       /\ \A k \in 1..(tr[R].calls - 1) :
            /\ Log[k].how = "rejected"
            /\ Frame.before[k].error = Log[k].value
            /\ Frame.before[k].result.state = "resolved"
       /\ Len(Frame.before) <= Len(Log)
       /\ Frame.pc = "before" =>
            /\ InFlight = 0
            /\ Len(Frame.before) = Len(Log)
            /\ Frame.before[Len(Log)].result.state = "pending"

C25_Witness ==
  /\ Started
  /\ tr[R].calls = 3
  /\ Len(Log) = 2
  /\ InFlight = 1
  /\ Frame.pc = "task"
  /\ Cardinality(ResolvedBefore) = 2

\* C26: the promise returned by retry rejects only with a value with which a
\* beforeRetry call rejected: every task failure, on the first attempt and on
\* every later attempt, is passed to beforeRetry before it can reach the
\* caller, and it always reaches the caller as a promise rejection, never as a
\* synchronous throw.
C26_FailuresGoThroughBeforeRetry ==
  /\ Outcome(R).state # "thrown"
  /\ Outcome(R).state = "rejected" =>
       \E j \in 1..Len(Frame.before) :
         Frame.before[j].result = [state |-> "rejected", value |-> Outcome(R).value]
  /\ Started =>
       \A j \in 1..Len(Log) :
         (Log[j].how \in {"rejected", "thrown"} /\ Frame.pc # "task") =>
           /\ Len(Frame.before) >= j
           /\ Frame.before[j].error = Log[j].value

\* the beforeRetry calls of the invocation that may retry: the error is
\* untagged and the budget is not used up
Retryable ==
  {j \in 1..Len(Frame.before) :
     ~isNotRetryError(Frame.before[j].error) /\ Frame.before[j].attempt < MaxRetriesOf}

\* C27: createRetry(maxRetries) starts exactly one backoff sleep before each
\* retry and none otherwise: no sleep precedes the first transport call, none
\* follows the failure that exhausts the budget or a tagged failure, and the
\* sleep before retry number k + 1 (k = 0, 1, ...) uses
\* backoffDelay(k, 1000, 10000, 2), so against an always-failing transport
\* exactly maxRetries sleeps occur.
C27_OneSleepPerRetry ==
  /\ tr[R].calls <= 1 => Len(sleeps) <= 1
  /\ ~Started => sleeps = <<>>
  /\ Started =>
       /\ Len(sleeps) = Cardinality(Retryable)
       /\ Retryable = 1..Len(sleeps)
       /\ tr[R].calls <= Len(sleeps) + 1
       /\ Len(sleeps) <= tr[R].calls
       /\ Len(sleeps) <= MaxRetriesOf
       /\ \A k \in 1..(tr[R].calls - 1) : sleeps[k].state = "resolved"
       /\ \A k \in 1..Len(sleeps) :
            /\ sleeps[k].ms \in {backoffDelay(k - 1, 1000, 10000, 2, u) :
                                  u \in 0..(RandSteps - 1)}
            /\ Frame.before[k].attempt = k - 1
       /\ (AllPlainRejections(Log) /\ Outcome(R).state = "rejected") =>
            Len(sleeps) = MaxRetriesOf

C27_Witness ==
  /\ Started
  /\ AllPlainRejections(Log)
  /\ MaxRetriesOf = 2
  /\ Outcome(R).state = "rejected"
  /\ tr[R].calls = 3
  /\ Len(sleeps) = 2
  /\ sleeps[1].ms = 750
  /\ sleeps[2].ms = 1500
  /\ sleeps[1].by = "timer"
  /\ sleeps[2].by = "timer"

\* the request runs through a chain of two retry wrappers
StartedNested == req[R].pc = "called" /\ Len(fr[R]) = 2

\* C28: for a middleware chain that contains two or more createRetry
\* middlewares, a transport rejection tagged non-retryable still bypasses all
\* retry budget: the transport is invoked exactly once and the caller receives
\* the untagged cause.
C28_TaggedBypassesNested ==
  (StartedNested /\ Len(Log) >= 1
     /\ Log[1].how = "rejected" /\ isNotRetryError(Log[1].value)) =>
    /\ tr[R].calls = 1
    /\ Outcome(R).state \in {"task", "before", "rejected"}
    /\ Outcome(R).state = "rejected" => Outcome(R).value = Cause(Log[1].value)

\* the request runs through a checkError wrapper and a retry wrapper
StartedCheck ==
  /\ req[R].pc = "called"
  /\ Len(fr[R]) = 2
  /\ \E i \in 1..2 : cfg[R].middlewares[i].name = "mapResponse"

\* checkError was added before retry (inner to it), or after it (outer)
CheckInner == cfg[R].middlewares[1].name = "mapResponse"
CheckOuter == cfg[R].middlewares[2].name = "mapResponse"

\* the retry invocation of the request, and its budget
RetryFrame == IF CheckInner THEN fr[R][2] ELSE fr[R][1]
BudgetOf ==
  IF CheckInner
  THEN cfg[R].middlewares[2].beforeRetry.maxRetries
  ELSE cfg[R].middlewares[1].beforeRetry.maxRetries

\* C29: whether a checkError failure is retried is fixed by list order. With
\* checkError added before retry (inner to it), an error thrown by check is
\* handed to the retry middleware's beforeRetry like a transport failure: with
\* budget left the transport is invoked again once the backoff has elapsed,
\* and the caller sees the error only when the budget is spent. With
\* checkError added after retry (outer to it), an error thrown by check is
\* never seen by the retry middleware and reaches the caller with no further
\* transport invocation.
C29_OrderDecidesRetry ==
  StartedCheck =>
    /\ CheckInner =>
         /\ tr[R].calls = RetryFrame.calls
         /\ \A j \in 1..Len(RetryFrame.before) :
              LET b == RetryFrame.before[j]
              IN b.error \in CheckErrors =>
                   /\ b.attempt < BudgetOf => b.result.state # "rejected"
                   /\ b.attempt >= BudgetOf =>
                        b.result = [state |-> "rejected", value |-> b.error]
                   /\ b.result.state = "resolved" => tr[R].calls >= j + 1
         /\ (Outcome(R).state = "rejected" /\ Outcome(R).value \in CheckErrors) =>
              /\ RetryFrame.before # <<>>
              /\ RetryFrame.before[Len(RetryFrame.before)].error = Outcome(R).value
              /\ RetryFrame.before[Len(RetryFrame.before)].attempt = BudgetOf
              /\ tr[R].calls = BudgetOf + 1
    /\ CheckOuter =>
         /\ \A j \in 1..Len(RetryFrame.before) :
              RetryFrame.before[j].error \notin CheckErrors
         /\ (Outcome(R).state = "rejected" /\ Outcome(R).value \in CheckErrors) =>
              /\ RetryFrame.pc = "resolved"
              /\ tr[R].pc = "resolved"
              /\ tr[R].calls = Len(Log)
              /\ tr[R].calls = RetryFrame.calls

\* a check failure was retried in the inner order (the transport was invoked
\* again and the next check failed too, exhausting the budget)
C29_Witness ==
  /\ StartedCheck
  /\ CheckInner
  /\ BudgetOf = 1
  /\ tr[R].calls = 2
  /\ Outcome(R).state = "rejected"
  /\ Outcome(R).value \in CheckErrors
  /\ Len(RetryFrame.before) = 2
  /\ RetryFrame.before[1].error \in CheckErrors
  /\ RetryFrame.before[1].result.state = "resolved"

\* the caller's promise is settled
Settled == Outcome(R).state \in {"resolved", "rejected"}

\* C30: for every finite maxRetries >= 0, if every transport call eventually
\* settles and every started timer eventually fires or its signal aborts,
\* an invocation of the wrapped call of createRetry(maxRetries) eventually
\* settles (resolves or rejects); it never stays pending forever.
C30_EventuallySettles == Started ~> (Started /\ Settled)

\* an invocation that used its whole budget of two retries and then settled
C30_Witness ==
  /\ Started
  /\ Settled
  /\ MaxRetriesOf = MaxRetriesBound
  /\ tr[R].calls = MaxRetriesBound + 1
  /\ Len(sleeps) = MaxRetriesBound
  /\ \A id \in 1..Len(sleeps) : sleeps[id].state = "resolved"

====
